---- MODULE Spec2Model ----
(***************************************************************************)
(* Outbound Traffic Dashboard (src/out.js): the aggregation and enrichment *)
(* engine as a state machine.                                              *)
(*                                                                         *)
(* JavaScript runs every handler and promise callback to completion, so    *)
(* each handler/callback is one atomic action.  Suspension happens only at *)
(* cockpit.spawn (log collection, "host", "ipinfo") and at setTimeout: the *)
(* outstanding spawn calls and the scheduled timers are state.             *)
(*                                                                         *)
(* Of the DOM the model keeps the text of the error banner and the record  *)
(* array renderTable last built the table body from.  Not modelled: the    *)
(* spinner, the status bar, the order and filtering of the table rows in   *)
(* Spec, and the countdown of the auto-refresh interval; the refresh tick  *)
(* appears only as a caller of fetchAndRenderData.                         *)
(*                                                                         *)
(* Spec is the page as a whole.  FairSpec and FetchFairSpec add that every *)
(* spawned lookup, respectively every log-collection call, settles.        *)
(* FoldSpec, SortSpec, ParseSpec and LoadSpec run processLogs, the sorting *)
(* of renderTable, parseShellOutput and loadIpInfoUsage on their own, over *)
(* every small input.                                                      *)
(***************************************************************************)
EXTENDS Integers, Sequences, FiniteSets, TLC

(***************************************************************************)
(* Bounds of the model.                                                    *)
(***************************************************************************)
\* Longest output (in lines) of one log-collection call.
MaxLines == 2
\* Last calendar day the model reaches (the session starts on day 1).
MaxDay == 2
\* Cap on the number of enrichWithIpInfo passes whose timers are still pending.
MaxTimerBatches == 1
\* state.ipInfoDailyLimit (1000 in the source), scaled down.
ipInfoDailyLimit == 2
\* Longest event list handed to the stand-alone processLogs loop.
MaxEvents == 3
\* Latest instant (as a small number) a log event carries; 0 is the epoch.
MaxInstant == 2
\* Largest record set handed to the stand-alone sort.
MaxSortRecords == 3
\* Longest output (in lines) handed to the stand-alone parseShellOutput.
MaxParseLines == 3

(***************************************************************************)
(* Input alphabets.                                                        *)
(***************************************************************************)
Addresses == {"10.0.0.1"}
Domains == {"github.com"}
TimeRanges == {"24 hours ago", "1 week ago"}

\* Hostnames the "host" command can report in a "domain name pointer" clause.
PtrNames == {"github.com"}

\* Parsed responses of the ipinfo CLI (fields absent in the JSON become "").
IpInfoResults ==
    { [ok |-> TRUE, ip |-> "10.0.0.1", hostname |-> "cdn.example.com",
       org |-> "AS36459 GitHub", timezone |-> "America/Chicago"] }

\* Every string that can become a lookup key of either enrichment instance.
AllKeys == Addresses \cup Domains \cup ({r.ip : r \in IpInfoResults} \ {""})

\* A line of the collector's output, already split on "|".  The last one is
\* the line for a looked-up name that is the delimiter itself.
FetchLines ==
    { <<"DNS", "Feb 14 15:54:10", "github.com", "A">>,
      <<"HTTPS", "Feb 14 15:55:01", "10.0.0.1">>,
      <<"DNS", "Feb 14 15:54:10", "", "", "A">> }

RECURSIVE SeqsUpTo(_, _)
SeqsUpTo(S, n) ==
    IF n = 0 THEN {<<>>}
    ELSE LET shorter == SeqsUpTo(S, n - 1)
         IN shorter \cup {Append(s, x) : s \in shorter, x \in S}

\* Outputs of fetch-logs.sh when the journal holds the given lines.
FetchOutputs(lines) == SeqsUpTo(lines, MaxLines)

\* The environment of a session, fixed when the page loads: the destinations
\* the journal mentions, the time-range buttons the user clicks, and the last
\* calendar day the page stays open.
Sessions ==
    { [lines |-> FetchLines, ranges |-> {"24 hours ago"}, lastDay |-> 1],
      [lines |-> {l \in FetchLines : l[1] = "HTTPS"}, ranges |-> {"24 hours ago"},
       lastDay |-> MaxDay],
      [lines |-> {l \in FetchLines : l[1] = "DNS"}, ranges |-> TimeRanges,
       lastDay |-> 1] }

(***************************************************************************)
(* State.                                                                  *)
(***************************************************************************)
VARIABLES
    session,              \* the environment of this session (never changes)
    today,                \* the calendar day new Date() reports
    usageFile,            \* ipinfo_usage.txt split on "|": <<day, count>>, <<>> if absent
    timeRange,            \* state.timeRange
    trafficRecords,       \* state.trafficRecords
    isFetching,           \* state.isFetching
    errorBanner,          \* the text in the error banner, <<>> when hidden
    tableRows,            \* the records renderTable last built the table body from
    fetchInFlight,        \* outstanding fetch-logs.sh calls (their time-range argument)
    reverseDnsCache,      \* state.reverseDnsCache: own keys -> hostname or NullDns
    pendingDnsLookups,    \* state.pendingDnsLookups: keys set to true
    dnsOutstanding,       \* outstanding "host" calls per key: the recordIndex each captured
    ipInfoCache,          \* state.ipInfoCache: own keys -> result or NullInfo
    pendingIpInfoLookups, \* state.pendingIpInfoLookups: keys set to true
    ipInfoOutstanding,    \* outstanding "ipinfo" calls per key: the recordIndex each captured
    ipInfoTimers,         \* setTimeout callbacks (key, idx) not yet run, one batch per pass
    ipInfoDailyCount,     \* state.ipInfoDailyCount
    \* history variables (observers: no action's guard or effect reads them)
    fetched,              \* the record set as processLogs returned it in the last cycle
    dnsCalls,             \* "host" calls issued per key during the session
    ipInfoCalls,          \* "ipinfo" calls issued per key during the session
    ipInfoCallsToday,     \* "ipinfo" calls issued on the current day
    lookupsToday,         \* counted lookups that belong to the current day
    staleDns,             \* keys in flight whose dispatching record set was replaced
    staleIpInfo,          \* same, IP-info instance
    lastOp,               \* the handler that ran last
    \* the loop of processLogs run on its own over an event list
    foldLogs,             \* rawLogs, the argument of processLogs
    foldCount,            \* the number of events the loop has folded in
    foldRecords,          \* the values of recordMap in insertion order
    \* renderTable's sorting run on its own over a record set
    sortRecs,             \* state.trafficRecords as renderTable finds it
    sortColumn,           \* state.sort.column
    sortDirection,        \* state.sort.direction
    sorted,               \* the array sortRecords returned to renderTable
    \* parseShellOutput run on its own over an output
    parseInput,           \* output, its lines already split on "|"
    parsed,               \* whether parseShellOutput has returned
    parseLogs,            \* logs, the array parseShellOutput returned
    \* loadIpInfoUsage run on its own over a usage file
    loadContent,          \* the text of ipinfo_usage.txt split on "|"
    loadToday,            \* the calendar day new Date() reports
    loadOutcome,          \* "pending", then "read" or "failed"
    loadCount             \* state.ipInfoDailyCount

programVars == <<session, today, usageFile, timeRange, trafficRecords, isFetching,
                 errorBanner, tableRows, fetchInFlight,
                 reverseDnsCache, pendingDnsLookups, dnsOutstanding,
                 ipInfoCache, pendingIpInfoLookups, ipInfoOutstanding, ipInfoTimers,
                 ipInfoDailyCount, fetched, dnsCalls, ipInfoCalls, ipInfoCallsToday,
                 lookupsToday, staleDns, staleIpInfo, lastOp>>
foldVars == <<foldLogs, foldCount, foldRecords>>
sortVars == <<sortRecs, sortColumn, sortDirection, sorted>>
parseVars == <<parseInput, parsed, parseLogs>>
loadVars == <<loadContent, loadToday, loadOutcome, loadCount>>
pureVars == <<foldVars, sortVars, parseVars, loadVars>>
vars == <<programVars, pureVars>>

\* The negative cache markers (null in the source).
NullDns == "<null>"
NullInfo == [ok |-> FALSE, ip |-> "", hostname |-> "", org |-> "", timezone |-> ""]

EmptyMap == [k \in {} |-> NullDns]
Put(map, k, v) == [x \in DOMAIN map \cup {k} |-> IF x = k THEN v ELSE map[x]]
ZeroCounts == [k \in AllKeys |-> 0]
NoCalls == [k \in AllKeys |-> <<>>]
\* lastOp: the handler, its key, a handler-specific number, and for a fetch
\* cycle the record indices at which each pass took its cache-hit branch and
\* the number of log events parseShellOutput returned; rendered tells whether
\* the handler called renderTable.
Op(name, key, n) ==
    [op |-> name, key |-> key, n |-> n, dnsHits |-> {}, ipHits |-> {}, events |-> 0,
     rendered |-> FALSE]

(***************************************************************************)
(* Parsing.                                                                *)
(***************************************************************************)
\* new Date(str + " " + year): the instants of the strings that parse.
KnownTimestamps == ("Feb 14 15:54:10" :> 1) @@ ("Feb 14 15:55:01" :> 2)

parseTimestamp(timestampStr) ==
    IF timestampStr \in DOMAIN KnownTimestamps
    THEN KnownTimestamps[timestampStr]
    ELSE 0

\* Mutant: the first line that yields no event ends the loop.
RECURSIVE parseShellOutputStoppingAtDroppedLine(_)
parseShellOutputStoppingAtDroppedLine(output) ==
    IF output = <<>> THEN <<>>
    ELSE LET parts == Head(output)
             rest == parseShellOutputStoppingAtDroppedLine(Tail(output))
         IN IF parts = <<"">> \/ Len(parts) < 3 THEN <<>>
            ELSE IF parts[1] = "DNS"
                 THEN <<[type |-> "DNS", timestamp |-> parseTimestamp(parts[2]),
                         url |-> parts[3], address |-> ""]>> \o rest
            ELSE IF parts[1] \in {"HTTPS", "HTTP", "PING"}
                 THEN <<[type |-> parts[1], timestamp |-> parseTimestamp(parts[2]),
                         url |-> "", address |-> parts[3]]>> \o rest
            ELSE <<>>

RECURSIVE parseShellOutput(_)
parseShellOutput(output) ==
    IF output = <<>> THEN <<>>
    ELSE LET parts == Head(output)
             rest == parseShellOutput(Tail(output))
         IN IF parts = <<"">> \/ Len(parts) < 3 THEN rest
            ELSE IF parts[1] = "DNS"
                 THEN <<[type |-> "DNS", timestamp |-> parseTimestamp(parts[2]),
                         url |-> parts[3], address |-> ""]>> \o rest
            ELSE IF parts[1] \in {"HTTPS", "HTTP", "PING"}
                 THEN <<[type |-> parts[1], timestamp |-> parseTimestamp(parts[2]),
                         url |-> "", address |-> parts[3]]>> \o rest
            ELSE rest

(***************************************************************************)
(* Aggregation.                                                            *)
(***************************************************************************)
\* Mutant: firstTimestamp always takes the new entry's timestamp.
updateExistingRecordTakingNewFirst(existingRecord, newEntry) ==
    [existingRecord EXCEPT
        !.firstTimestamp = newEntry.firstTimestamp,
        !.lastTimestamp = IF newEntry.lastTimestamp > @
                          THEN newEntry.lastTimestamp ELSE @,
        !.frequency = @ + 1,
        !.url = IF @ = "" /\ newEntry.url # "" THEN newEntry.url ELSE @,
        !.address = IF @ = "" /\ newEntry.address # "" THEN newEntry.address ELSE @]

\* Mutant: lastTimestamp always takes the timestamp of the entry that arrived
\* last.
updateExistingRecordTakingNewLast(existingRecord, newEntry) ==
    [existingRecord EXCEPT
        !.firstTimestamp = IF newEntry.firstTimestamp < @
                           THEN newEntry.firstTimestamp ELSE @,
        !.lastTimestamp = newEntry.lastTimestamp,
        !.frequency = @ + 1,
        !.url = IF @ = "" /\ newEntry.url # "" THEN newEntry.url ELSE @,
        !.address = IF @ = "" /\ newEntry.address # "" THEN newEntry.address ELSE @]

\* Mutant: url and address always take the new entry's values.
updateExistingRecordOverwriting(existingRecord, newEntry) ==
    [existingRecord EXCEPT
        !.firstTimestamp = IF newEntry.firstTimestamp < @
                           THEN newEntry.firstTimestamp ELSE @,
        !.lastTimestamp = IF newEntry.lastTimestamp > @
                          THEN newEntry.lastTimestamp ELSE @,
        !.frequency = @ + 1,
        !.url = newEntry.url,
        !.address = newEntry.address]

updateExistingRecord(existingRecord, newEntry) ==
    [existingRecord EXCEPT
        !.firstTimestamp = IF newEntry.firstTimestamp < @
                           THEN newEntry.firstTimestamp ELSE @,
        !.lastTimestamp = IF newEntry.lastTimestamp > @
                          THEN newEntry.lastTimestamp ELSE @,
        !.frequency = @ + 1,
        !.url = IF @ = "" /\ newEntry.url # "" THEN newEntry.url ELSE @,
        !.address = IF @ = "" /\ newEntry.address # "" THEN newEntry.address ELSE @]

\* recordMap is a plain object: the assignment recordMap[key] = lambda with
\* this key runs the prototype setter of Object.prototype and creates no own
\* property, so hasOwnProperty stays false for it and the final loop over the
\* own properties never sees it.
ProtoKey == "__proto__"

\* Mutant: no event is skipped.
noKeyNeverSkips(key) == FALSE

\* The test that skips an event with neither a url nor an address.
noKey(key) == key = ""

\* recordMap as the list of its own properties in insertion order: keys[i]
\* is the property name of recs[i].
RECURSIVE processLogsFrom(_, _, _)
processLogsFrom(rawLogs, keys, recs) ==
    IF rawLogs = <<>> THEN recs
    ELSE LET log == Head(rawLogs)
             lambda == [url |-> log.url, address |-> log.address,
                        firstTimestamp |-> log.timestamp,
                        lastTimestamp |-> log.timestamp,
                        frequency |-> 1, category |-> "", data |-> "",
                        type |-> log.type]
             key == IF lambda.url # "" THEN lambda.url ELSE lambda.address
         IN IF noKey(key) THEN processLogsFrom(Tail(rawLogs), keys, recs)
            ELSE IF \E i \in 1..Len(keys) : keys[i] = key
                 THEN LET i == CHOOSE j \in 1..Len(keys) : keys[j] = key
                      IN processLogsFrom(Tail(rawLogs), keys,
                             [recs EXCEPT ![i] = updateExistingRecord(@, lambda)])
                 ELSE IF key = ProtoKey
                 THEN processLogsFrom(Tail(rawLogs), keys, recs)
                 ELSE processLogsFrom(Tail(rawLogs), Append(keys, key),
                                      Append(recs, lambda))

processLogs(rawLogs) == processLogsFrom(rawLogs, <<>>, <<>>)

(***************************************************************************)
(* Reverse-DNS enrichment.                                                 *)
(***************************************************************************)
\* Mutant: no check of the in-flight set before spawning.
performReverseDnsNoInFlightCheck(cache, ipAddress, recordIndex, s) ==
    IF ipAddress \in DOMAIN cache
    THEN LET cached == cache[ipAddress]
         IN IF cached # NullDns /\ recordIndex \in 1..Len(s.recs)
            THEN [s EXCEPT !.recs[recordIndex].url = cached,
                           !.hits = @ \cup {recordIndex}]
            ELSE [s EXCEPT !.hits = @ \cup {recordIndex}]
    ELSE [s EXCEPT !.pending = @ \cup {ipAddress},
                   !.spawned = Append(@, [key |-> ipAddress, idx |-> recordIndex])]

\* Mutant: a cache hit returns without writing the cached hostname.
performReverseDnsCacheNotApplied(cache, ipAddress, recordIndex, s) ==
    IF ipAddress \in DOMAIN cache
    THEN [s EXCEPT !.hits = @ \cup {recordIndex}]
    ELSE IF ipAddress \in s.pending THEN s
    ELSE [s EXCEPT !.pending = @ \cup {ipAddress},
                   !.spawned = Append(@, [key |-> ipAddress, idx |-> recordIndex])]

\* The synchronous part of performReverseDns.  s carries the records, the
\* in-flight set, the "host" calls spawned so far in this pass, and (for
\* observation) the indices at which the cache-hit branch ran.
performReverseDns(cache, ipAddress, recordIndex, s) ==
    IF ipAddress \in DOMAIN cache
    THEN LET cached == cache[ipAddress]
         IN IF cached # NullDns /\ recordIndex \in 1..Len(s.recs)
            THEN [s EXCEPT !.recs[recordIndex].url = cached,
                           !.hits = @ \cup {recordIndex}]
            ELSE [s EXCEPT !.hits = @ \cup {recordIndex}]
    ELSE IF ipAddress \in s.pending THEN s
    ELSE [s EXCEPT !.pending = @ \cup {ipAddress},
                   !.spawned = Append(@, [key |-> ipAddress, idx |-> recordIndex])]

RECURSIVE enrichWithReverseDnsFrom(_, _, _)
enrichWithReverseDnsFrom(i, cache, s) ==
    IF i > Len(s.recs) THEN s
    ELSE LET record == s.recs[i]
         IN IF record.address # "" /\ record.url = ""
            THEN enrichWithReverseDnsFrom(i + 1, cache,
                     performReverseDns(cache, record.address, i, s))
            ELSE enrichWithReverseDnsFrom(i + 1, cache, s)

enrichWithReverseDns(recs, cache, pending) ==
    enrichWithReverseDnsFrom(1, cache,
        [recs |-> recs, pending |-> pending, spawned |-> <<>>, hits |-> {}])

\* Mutant: the hostname goes to the record at the index captured at dispatch.
fillHostnameAtIndex(recs, ipAddress, recordIndex, hostname) ==
    IF recordIndex \in 1..Len(recs)
    THEN [recs EXCEPT ![recordIndex].url = hostname]
    ELSE recs

\* The loop of the .then callback: every record with this address and no url.
\* recordIndex is in the callback's scope and not read.
fillHostname(recs, ipAddress, recordIndex, hostname) ==
    [j \in 1..Len(recs) |->
        IF recs[j].address = ipAddress /\ recs[j].url = ""
        THEN [recs[j] EXCEPT !.url = hostname]
        ELSE recs[j]]

(***************************************************************************)
(* IP-info enrichment.                                                     *)
(***************************************************************************)
\* The text of the count field of ipinfo_usage.txt: the number its leading
\* decimal digits spell (<<>> when it does not start with a digit) and the
\* characters after them.
DecimalText(n) == [digits |-> <<n>>, rest |-> ""]

\* parseInt(text, 10) || 0: the leading digits as a number, 0 when there are
\* none (NaN).
parseIntOrZero(text) == IF text.digits = <<>> THEN 0 ELSE text.digits[1]

\* Mutant: the stored day is not compared with the current day.
loadIpInfoUsageIgnoringDay(content, todayStr) ==
    IF content = <<>> THEN 0
    ELSE IF Len(content) = 2 THEN parseIntOrZero(content[2])
    ELSE 0

\* The .then callback of the read in loadIpInfoUsage; content is the text
\* of the file split on "|", <<>> when the file is absent, empty or blank.
loadIpInfoUsage(content, todayStr) ==
    IF content = <<>> THEN 0
    ELSE IF Len(content) = 2 /\ content[1] = todayStr THEN parseIntOrZero(content[2])
    ELSE 0

\* Mutant: the file is written before the count is incremented.
saveIpInfoUsageBeforeIncrement(todayStr, count) == <<todayStr, DecimalText(count - 1)>>

saveIpInfoUsage(todayStr, count) == <<todayStr, DecimalText(count)>>

\* Mutant: the hostname is written whenever the result carries one.
applyIpInfoResultOverwritingUrl(recs, lookupKey, result) ==
    [j \in 1..Len(recs) |->
        LET rec == recs[j]
        IN IF rec.address = lookupKey \/ rec.url = lookupKey
           THEN [rec EXCEPT
                   !.url = IF result.hostname # "" THEN result.hostname ELSE @,
                   !.address = IF @ = "" /\ result.ip # ""
                               THEN result.ip ELSE @,
                   !.category = IF @ = "" /\ result.org # ""
                                THEN result.org ELSE @,
                   !.data = IF @ = "" /\ result.timezone # ""
                            THEN result.timezone ELSE @]
           ELSE rec]

applyIpInfoResult(recs, lookupKey, result) ==
    [j \in 1..Len(recs) |->
        LET rec == recs[j]
        IN IF rec.address = lookupKey \/ rec.url = lookupKey
           THEN [rec EXCEPT
                   !.url = IF @ = "" /\ result.hostname # ""
                           THEN result.hostname ELSE @,
                   !.address = IF @ = "" /\ result.ip # ""
                               THEN result.ip ELSE @,
                   !.category = IF @ = "" /\ result.org # ""
                                THEN result.org ELSE @,
                   !.data = IF @ = "" /\ result.timezone # ""
                            THEN result.timezone ELSE @]
           ELSE rec]

lookupKeyOf(record) == IF record.address # "" THEN record.address ELSE record.url

\* The loop of enrichWithIpInfo.  s carries the records, the timers scheduled
\* in this pass, hadCachedResults, the index at which the loop broke (0 if
\* it ran to the end), and (for observation) the indices at which the
\* cached branch ran.
RECURSIVE enrichWithIpInfoFrom(_, _, _, _)
enrichWithIpInfoFrom(i, cache, count, s) ==
    IF i > Len(s.recs) THEN s
    ELSE LET record == s.recs[i]
             lookupKey == lookupKeyOf(record)
         IN IF lookupKey # "" /\ record.category = ""
            THEN IF lookupKey \in DOMAIN cache
                 THEN IF cache[lookupKey].ok
                      THEN enrichWithIpInfoFrom(i + 1, cache, count,
                               [s EXCEPT !.recs = applyIpInfoResult(@, lookupKey,
                                                                    cache[lookupKey]),
                                         !.hadCachedResults = TRUE,
                                         !.hits = @ \cup {i}])
                      ELSE enrichWithIpInfoFrom(i + 1, cache, count,
                               [s EXCEPT !.hits = @ \cup {i}])
                 ELSE IF count >= ipInfoDailyLimit
                      THEN [s EXCEPT !.brokeAt = i]
                      ELSE enrichWithIpInfoFrom(i + 1, cache, count,
                               [s EXCEPT !.timers = Append(@, [key |-> lookupKey,
                                                                 idx |-> i])])
            ELSE enrichWithIpInfoFrom(i + 1, cache, count, s)

enrichWithIpInfo(recs, cache, count) ==
    enrichWithIpInfoFrom(1, cache, count,
        [recs |-> recs, timers |-> <<>>, hadCachedResults |-> FALSE, brokeAt |-> 0,
         hits |-> {}])

(***************************************************************************)
(* Helpers on bags of outstanding calls.                                   *)
(***************************************************************************)
RECURSIVE CountAll(_, _)
CountAll(counts, calls) ==
    IF calls = <<>> THEN counts
    ELSE CountAll([counts EXCEPT ![Head(calls).key] = @ + 1], Tail(calls))

RECURSIVE AddAll(_, _)
AddAll(outstanding, calls) ==
    IF calls = <<>> THEN outstanding
    ELSE AddAll([outstanding EXCEPT ![Head(calls).key] = Append(@, Head(calls).idx)],
                Tail(calls))

Range(s) == {s[i] : i \in 1..Len(s)}

(***************************************************************************)
(* Initial state: DOMContentLoaded has run loadIpInfoUsage; the first      *)
(* fetchAndRenderData is the first FetchRequest.                           *)
(***************************************************************************)
\* What ipinfo_usage.txt can hold when the page loads: nothing, a count
\* stamped with an earlier day, or a count stamped with the current day.
StoredUsageFiles ==
    {<<>>, <<0, DecimalText(ipInfoDailyLimit)>>}
    \cup {<<1, DecimalText(c)>> : c \in 0..ipInfoDailyLimit}

\* No list has been handed to the stand-alone processLogs loop.
FoldIdle ==
    /\ foldLogs = <<>>
    /\ foldCount = 0
    /\ foldRecords = <<>>

\* The sort settings the state object is constructed with; nothing rendered.
SortIdle ==
    /\ sortRecs = <<>>
    /\ sortColumn = "lastTimestamp"
    /\ sortDirection = "desc"
    /\ sorted = <<>>

\* No output has been handed to the stand-alone parseShellOutput.
ParseIdle ==
    /\ parseInput = <<>>
    /\ parsed = FALSE
    /\ parseLogs = <<>>

\* No file has been handed to the stand-alone loadIpInfoUsage.
LoadIdle ==
    /\ loadContent = <<>>
    /\ loadToday = 1
    /\ loadOutcome = "pending"
    /\ loadCount = 0

Init ==
    /\ FoldIdle
    /\ SortIdle
    /\ ParseIdle
    /\ LoadIdle
    /\ session \in Sessions
    /\ today = 1
    /\ usageFile \in StoredUsageFiles
    /\ timeRange = "24 hours ago"
    /\ trafficRecords = <<>>
    /\ isFetching = FALSE
    /\ errorBanner = <<>>
    /\ tableRows = <<>>
    /\ fetchInFlight = <<>>
    /\ reverseDnsCache = EmptyMap
    /\ pendingDnsLookups = {}
    /\ dnsOutstanding = NoCalls
    /\ ipInfoCache = EmptyMap
    /\ pendingIpInfoLookups = {}
    /\ ipInfoOutstanding = NoCalls
    /\ ipInfoTimers = <<>>
    /\ ipInfoDailyCount = loadIpInfoUsage(usageFile, today)
    /\ fetched = <<>>
    /\ dnsCalls = ZeroCounts
    /\ ipInfoCalls = ZeroCounts
    /\ ipInfoCallsToday = loadIpInfoUsage(usageFile, today)
    /\ lookupsToday = loadIpInfoUsage(usageFile, today)
    /\ staleDns = {}
    /\ staleIpInfo = {}
    /\ lastOp = Op("init", "", 0)

(***************************************************************************)
(* Log collection.                                                         *)
(***************************************************************************)
\* Mutant: the guard never blocks.
fetchNeverBlocked(fetching) == FALSE

\* The single-flight guard at the top of fetchAndRenderData.
fetchBlocked(fetching) == fetching

\* fetchAndRenderData as called with state.timeRange = range.
fetchAndRenderData(range) ==
    IF fetchBlocked(isFetching)
    THEN UNCHANGED <<isFetching, errorBanner, fetchInFlight>>
    ELSE /\ isFetching' = TRUE
         /\ errorBanner' = <<>>
         /\ fetchInFlight' = Append(fetchInFlight, range)

enrichmentVars == <<trafficRecords, reverseDnsCache, pendingDnsLookups, dnsOutstanding,
                    ipInfoCache, pendingIpInfoLookups, ipInfoOutstanding, ipInfoTimers,
                    ipInfoDailyCount, usageFile>>
historyVars == <<fetched, dnsCalls, ipInfoCalls, ipInfoCallsToday, lookupsToday,
                 staleDns, staleIpInfo>>

\* The callers that only request a fetch: the first call after
\* loadIpInfoUsage, the auto-refresh interval reaching zero, the page
\* becoming visible again.
FetchRequest ==
    /\ fetchAndRenderData(timeRange)
    /\ lastOp' = Op("fetchAndRenderData", "", IF isFetching THEN 1 ELSE 0)
    /\ UNCHANGED <<session, today, timeRange, tableRows>>
    /\ UNCHANGED enrichmentVars
    /\ UNCHANGED historyVars
    /\ UNCHANGED pureVars

handleTimeFilterChange(newRange) ==
    /\ newRange \in session.ranges
    /\ timeRange' = newRange
    /\ fetchAndRenderData(newRange)
    /\ lastOp' = Op("handleTimeFilterChange", "", IF isFetching THEN 1 ELSE 0)
    /\ UNCHANGED <<session, today, tableRows>>
    /\ UNCHANGED enrichmentVars
    /\ UNCHANGED historyVars
    /\ UNCHANGED pureVars

\* The .then callback of the log-collection call.
FetchThen(output) ==
    /\ fetchInFlight # <<>>
    /\ output \in FetchOutputs(session.lines)
    /\ LET rawLogs == parseShellOutput(output)
           records == processLogs(rawLogs)
           d == enrichWithReverseDns(records, reverseDnsCache, pendingDnsLookups)
           p == enrichWithIpInfo(d.recs, ipInfoCache, ipInfoDailyCount)
       IN /\ p.timers = <<>> \/ Len(ipInfoTimers) < MaxTimerBatches
          /\ trafficRecords' = p.recs
          /\ tableRows' = IF p.hadCachedResults THEN p.recs ELSE records
          /\ fetched' = records
          /\ pendingDnsLookups' = d.pending
          /\ dnsOutstanding' = AddAll(dnsOutstanding, d.spawned)
          /\ dnsCalls' = CountAll(dnsCalls, d.spawned)
          /\ ipInfoTimers' = IF p.timers = <<>> THEN ipInfoTimers
                             ELSE Append(ipInfoTimers, p.timers)
          /\ lastOp' = [Op("fetchThen", "", p.brokeAt) EXCEPT !.dnsHits = d.hits,
                                                              !.ipHits = p.hits,
                                                              !.events = Len(rawLogs),
                                                              !.rendered = TRUE]
    /\ staleDns' = pendingDnsLookups
    /\ staleIpInfo' = pendingIpInfoLookups
    /\ isFetching' = FALSE
    /\ fetchInFlight' = Tail(fetchInFlight)
    /\ UNCHANGED <<session, errorBanner,
                   today, usageFile, timeRange, reverseDnsCache, ipInfoCache,
                   pendingIpInfoLookups, ipInfoOutstanding, ipInfoDailyCount,
                   ipInfoCalls, ipInfoCallsToday, lookupsToday>>
    /\ UNCHANGED pureVars

\* What cockpit.spawn rejects with (error.message).
FetchErrors == {"not-found"}

\* The text showError displays for a failed log collection (prefix, message).
showError(msg) == <<"Failed to fetch traffic data: ", msg>>

\* Mutant: the failure blanks the record set.
FetchCatchClearingRecords ==
    /\ fetchInFlight # <<>>
    /\ \E error \in FetchErrors : errorBanner' = showError(error)
    /\ isFetching' = FALSE
    /\ fetchInFlight' = Tail(fetchInFlight)
    /\ trafficRecords' = <<>>
    /\ lastOp' = Op("fetchCatch", "", 0)
    /\ UNCHANGED <<session, today, timeRange, tableRows, reverseDnsCache, pendingDnsLookups,
                   dnsOutstanding, ipInfoCache, pendingIpInfoLookups, ipInfoOutstanding,
                   ipInfoTimers, ipInfoDailyCount, usageFile>>
    /\ UNCHANGED historyVars
    /\ UNCHANGED pureVars

\* Mutant: the failure path shows the error and leaves the guard set.
FetchCatchLeavingGuardSet ==
    /\ fetchInFlight # <<>>
    /\ \E error \in FetchErrors : errorBanner' = showError(error)
    /\ fetchInFlight' = Tail(fetchInFlight)
    /\ lastOp' = Op("fetchCatch", "", 0)
    /\ UNCHANGED <<session, today, timeRange, tableRows, isFetching>>
    /\ UNCHANGED enrichmentVars
    /\ UNCHANGED historyVars
    /\ UNCHANGED pureVars

\* The .catch callback of the log-collection call.
FetchCatch ==
    /\ fetchInFlight # <<>>
    /\ \E error \in FetchErrors : errorBanner' = showError(error)
    /\ isFetching' = FALSE
    /\ fetchInFlight' = Tail(fetchInFlight)
    /\ lastOp' = Op("fetchCatch", "", 0)
    /\ UNCHANGED <<session, today, timeRange, tableRows>>
    /\ UNCHANGED enrichmentVars
    /\ UNCHANGED historyVars
    /\ UNCHANGED pureVars

(***************************************************************************)
(* Completion of a "host" call.                                            *)
(***************************************************************************)
NoMatch == "<no pointer>"

\* Mutant: an output without a pointer clause leaves no cache entry.
cacheReverseDnsPositiveOnly(cache, ipAddress, matched) ==
    IF matched = NoMatch THEN cache ELSE Put(cache, ipAddress, matched)

\* The cache after the .then callback has stored the regex match result.
cacheReverseDns(cache, ipAddress, matched) ==
    Put(cache, ipAddress, IF matched = NoMatch THEN NullDns ELSE matched)

ReverseDnsThen(ipAddress, matched) ==
    /\ dnsOutstanding[ipAddress] # <<>>
    /\ reverseDnsCache' = cacheReverseDns(reverseDnsCache, ipAddress, matched)
    /\ trafficRecords' = IF matched = NoMatch THEN trafficRecords
                         ELSE fillHostname(trafficRecords, ipAddress,
                                           Head(dnsOutstanding[ipAddress]), matched)
    /\ pendingDnsLookups' = pendingDnsLookups \ {ipAddress}
    /\ dnsOutstanding' = [dnsOutstanding EXCEPT ![ipAddress] = Tail(@)]
    /\ staleDns' = staleDns \ {ipAddress}
    /\ lastOp' = [Op("reverseDnsThen", ipAddress, IF ipAddress \in staleDns THEN 1 ELSE 0)
                      EXCEPT !.rendered = (matched # NoMatch)]
    /\ tableRows' = IF matched = NoMatch THEN tableRows ELSE trafficRecords'
    /\ UNCHANGED <<session, errorBanner,
                   today, usageFile, timeRange, isFetching, fetchInFlight,
                   ipInfoCache, pendingIpInfoLookups, ipInfoOutstanding, ipInfoTimers,
                   ipInfoDailyCount, fetched, dnsCalls, ipInfoCalls, ipInfoCallsToday,
                   lookupsToday, staleIpInfo>>
    /\ UNCHANGED pureVars

\* Mutant: a failed "host" call clears the in-flight flag and caches nothing.
ReverseDnsCatchLeavingNoEntry(ipAddress) ==
    /\ dnsOutstanding[ipAddress] # <<>>
    /\ pendingDnsLookups' = pendingDnsLookups \ {ipAddress}
    /\ dnsOutstanding' = [dnsOutstanding EXCEPT ![ipAddress] = Tail(@)]
    /\ staleDns' = staleDns \ {ipAddress}
    /\ lastOp' = Op("reverseDnsCatch", ipAddress, IF ipAddress \in staleDns THEN 1 ELSE 0)
    /\ UNCHANGED <<session, errorBanner, tableRows,
                   today, usageFile, timeRange, trafficRecords, isFetching,
                   fetchInFlight, reverseDnsCache, ipInfoCache, pendingIpInfoLookups,
                   ipInfoOutstanding, ipInfoTimers, ipInfoDailyCount, fetched, dnsCalls,
                   ipInfoCalls, ipInfoCallsToday, lookupsToday, staleIpInfo>>
    /\ UNCHANGED pureVars

ReverseDnsCatch(ipAddress) ==
    /\ dnsOutstanding[ipAddress] # <<>>
    /\ reverseDnsCache' = Put(reverseDnsCache, ipAddress, NullDns)
    /\ pendingDnsLookups' = pendingDnsLookups \ {ipAddress}
    /\ dnsOutstanding' = [dnsOutstanding EXCEPT ![ipAddress] = Tail(@)]
    /\ staleDns' = staleDns \ {ipAddress}
    /\ lastOp' = Op("reverseDnsCatch", ipAddress, IF ipAddress \in staleDns THEN 1 ELSE 0)
    /\ UNCHANGED <<session, errorBanner, tableRows,
                   today, usageFile, timeRange, trafficRecords, isFetching,
                   fetchInFlight, ipInfoCache, pendingIpInfoLookups, ipInfoOutstanding,
                   ipInfoTimers, ipInfoDailyCount, fetched, dnsCalls, ipInfoCalls,
                   ipInfoCallsToday, lookupsToday, staleIpInfo>>
    /\ UNCHANGED pureVars

(***************************************************************************)
(* IP-info lookups.                                                        *)
(***************************************************************************)
\* The quota gate of performIpInfoLookup.
quotaReached(count) == count >= ipInfoDailyLimit

\* Mutant: the key is marked in flight before the quota gate is tested.
performIpInfoLookupMarkingBeforeGate(cache, pending, count, recs, lookupKey, recordIndex) ==
    IF lookupKey \in DOMAIN cache
    THEN [recs |-> IF cache[lookupKey].ok
                   THEN applyIpInfoResult(recs, lookupKey, cache[lookupKey])
                   ELSE recs,
          pending |-> pending, spawned |-> FALSE]
    ELSE IF lookupKey \in pending
    THEN [recs |-> recs, pending |-> pending, spawned |-> FALSE]
    ELSE IF quotaReached(count)
    THEN [recs |-> recs, pending |-> pending \cup {lookupKey}, spawned |-> FALSE]
    ELSE [recs |-> recs, pending |-> pending \cup {lookupKey}, spawned |-> TRUE]

\* The synchronous part of performIpInfoLookup: the records, the in-flight
\* set, and whether "ipinfo" was spawned.  recordIndex is a parameter the
\* function never reads.
performIpInfoLookup(cache, pending, count, recs, lookupKey, recordIndex) ==
    IF lookupKey \in DOMAIN cache
    THEN [recs |-> IF cache[lookupKey].ok
                   THEN applyIpInfoResult(recs, lookupKey, cache[lookupKey])
                   ELSE recs,
          pending |-> pending, spawned |-> FALSE]
    ELSE IF lookupKey \in pending
    THEN [recs |-> recs, pending |-> pending, spawned |-> FALSE]
    ELSE IF quotaReached(count)
    THEN [recs |-> recs, pending |-> pending, spawned |-> FALSE]
    ELSE [recs |-> recs, pending |-> pending \cup {lookupKey}, spawned |-> TRUE]

RemoveHead(batches, b) ==
    LET rest == Tail(batches[b])
    IN IF rest = <<>>
       THEN SubSeq(batches, 1, b - 1) \o SubSeq(batches, b + 1, Len(batches))
       ELSE [batches EXCEPT ![b] = rest]

\* The next setTimeout callback of batch b runs performIpInfoLookup.
IpInfoTimer(b) ==
    /\ b \in 1..Len(ipInfoTimers)
    /\ LET lookupKey == Head(ipInfoTimers[b]).key
           recordIndex == Head(ipInfoTimers[b]).idx
           r == performIpInfoLookup(ipInfoCache, pendingIpInfoLookups,
                                    ipInfoDailyCount, trafficRecords, lookupKey,
                                    recordIndex)
           n == IF r.spawned THEN 1 ELSE 0
       IN /\ trafficRecords' = r.recs
          /\ pendingIpInfoLookups' = r.pending
          /\ ipInfoOutstanding' =
                 IF r.spawned
                 THEN [ipInfoOutstanding EXCEPT ![lookupKey] = Append(@, recordIndex)]
                 ELSE ipInfoOutstanding
          /\ ipInfoCalls' = [ipInfoCalls EXCEPT ![lookupKey] = @ + n]
          /\ ipInfoCallsToday' = ipInfoCallsToday + n
          /\ lastOp' = Op("performIpInfoLookup", lookupKey, n)
    /\ ipInfoTimers' = RemoveHead(ipInfoTimers, b)
    /\ UNCHANGED <<session, errorBanner, tableRows,
                   today, usageFile, timeRange, isFetching, fetchInFlight,
                   reverseDnsCache, pendingDnsLookups, dnsOutstanding, ipInfoCache,
                   ipInfoDailyCount, fetched, dnsCalls, lookupsToday, staleDns,
                   staleIpInfo>>
    /\ UNCHANGED pureVars

\* JSON.parse threw.
BadJson == [ok |-> FALSE, ip |-> "", hostname |-> "", org |-> "bad json", timezone |-> ""]

\* JSON.parse returned null: reading info.ip throws inside the .then
\* callback and the .catch callback runs.
JsonNull == [ok |-> FALSE, ip |-> "", hostname |-> "", org |-> "null", timezone |-> ""]

\* The outputs for which the .then callback builds no result.
NoResult == {BadJson, JsonNull}

\* Mutant: an unparseable response leaves no cache entry.
cacheIpInfoPositiveOnly(cache, lookupKey, info) ==
    IF info \in NoResult THEN cache ELSE Put(cache, lookupKey, info)

\* The cache after the .then callback has stored the parsed response.
cacheIpInfo(cache, lookupKey, info) ==
    Put(cache, lookupKey, IF info \in NoResult THEN NullInfo ELSE info)

IpInfoThen(lookupKey, info) ==
    /\ ipInfoOutstanding[lookupKey] # <<>>
    /\ ipInfoCache' = cacheIpInfo(ipInfoCache, lookupKey, info)
    /\ IF info \in NoResult
       THEN UNCHANGED <<trafficRecords, ipInfoDailyCount, usageFile, lookupsToday>>
       ELSE /\ trafficRecords' = applyIpInfoResult(trafficRecords, lookupKey, info)
            /\ ipInfoDailyCount' = ipInfoDailyCount + 1
            /\ usageFile' = saveIpInfoUsage(today, ipInfoDailyCount')
            /\ lookupsToday' = lookupsToday + 1
    /\ pendingIpInfoLookups' = pendingIpInfoLookups \ {lookupKey}
    /\ ipInfoOutstanding' = [ipInfoOutstanding EXCEPT ![lookupKey] = Tail(@)]
    /\ staleIpInfo' = staleIpInfo \ {lookupKey}
    /\ lastOp' = [Op("ipInfoThen", lookupKey, IF lookupKey \in staleIpInfo THEN 1 ELSE 0)
                      EXCEPT !.rendered = (info \notin NoResult)]
    /\ tableRows' = IF info \in NoResult THEN tableRows ELSE trafficRecords'
    /\ UNCHANGED <<session, errorBanner,
                   today, timeRange, isFetching, fetchInFlight, reverseDnsCache,
                   pendingDnsLookups, dnsOutstanding, ipInfoTimers, fetched, dnsCalls,
                   ipInfoCalls, ipInfoCallsToday, staleDns>>
    /\ UNCHANGED pureVars

\* Mutant: a failed "ipinfo" call caches null and leaves the key in flight.
IpInfoCatchKeepingInFlight(lookupKey) ==
    /\ ipInfoOutstanding[lookupKey] # <<>>
    /\ ipInfoCache' = Put(ipInfoCache, lookupKey, NullInfo)
    /\ ipInfoOutstanding' = [ipInfoOutstanding EXCEPT ![lookupKey] = Tail(@)]
    /\ staleIpInfo' = staleIpInfo \ {lookupKey}
    /\ lastOp' = Op("ipInfoCatch", lookupKey, IF lookupKey \in staleIpInfo THEN 1 ELSE 0)
    /\ UNCHANGED <<session, errorBanner, tableRows,
                   today, usageFile, timeRange, trafficRecords, isFetching,
                   fetchInFlight, reverseDnsCache, pendingDnsLookups, dnsOutstanding,
                   pendingIpInfoLookups, ipInfoTimers, ipInfoDailyCount, fetched, dnsCalls,
                   ipInfoCalls, ipInfoCallsToday, lookupsToday, staleDns>>
    /\ UNCHANGED pureVars

IpInfoCatch(lookupKey) ==
    /\ ipInfoOutstanding[lookupKey] # <<>>
    /\ ipInfoCache' = Put(ipInfoCache, lookupKey, NullInfo)
    /\ pendingIpInfoLookups' = pendingIpInfoLookups \ {lookupKey}
    /\ ipInfoOutstanding' = [ipInfoOutstanding EXCEPT ![lookupKey] = Tail(@)]
    /\ staleIpInfo' = staleIpInfo \ {lookupKey}
    /\ lastOp' = Op("ipInfoCatch", lookupKey, IF lookupKey \in staleIpInfo THEN 1 ELSE 0)
    /\ UNCHANGED <<session, errorBanner, tableRows,
                   today, usageFile, timeRange, trafficRecords, isFetching,
                   fetchInFlight, reverseDnsCache, pendingDnsLookups, dnsOutstanding,
                   ipInfoTimers, ipInfoDailyCount, fetched, dnsCalls, ipInfoCalls,
                   ipInfoCallsToday, lookupsToday, staleDns>>
    /\ UNCHANGED pureVars

(***************************************************************************)
(* The calendar day advances (midnight UTC passes while the page is open). *)
(***************************************************************************)
DayChange ==
    /\ today < session.lastDay
    /\ today' = today + 1
    /\ ipInfoCallsToday' = 0
    /\ lookupsToday' = 0
    /\ lastOp' = Op("dayChange", "", 0)
    /\ UNCHANGED <<session, errorBanner, tableRows, timeRange, isFetching, fetchInFlight,
                   fetched, dnsCalls,
                   ipInfoCalls, staleDns, staleIpInfo>>
    /\ UNCHANGED enrichmentVars
    /\ UNCHANGED pureVars

Next ==
    \/ FetchRequest
    \/ \E newRange \in TimeRanges : handleTimeFilterChange(newRange)
    \/ \E output \in FetchOutputs(FetchLines) : FetchThen(output)
    \/ FetchCatch
    \/ \E ipAddress \in AllKeys, matched \in PtrNames \cup {NoMatch} :
           ReverseDnsThen(ipAddress, matched)
    \/ \E ipAddress \in AllKeys : ReverseDnsCatch(ipAddress)
    \/ \E b \in 1..MaxTimerBatches : IpInfoTimer(b)
    \/ \E lookupKey \in AllKeys, info \in IpInfoResults \cup NoResult :
           IpInfoThen(lookupKey, info)
    \/ \E lookupKey \in AllKeys : IpInfoCatch(lookupKey)
    \/ DayChange

Spec == Init /\ [][Next]_vars

\* The promise of a spawned "host" call for ipAddress settles: one of its two
\* callbacks runs.
ReverseDnsSettles(ipAddress) ==
    \/ \E matched \in PtrNames \cup {NoMatch} : ReverseDnsThen(ipAddress, matched)
    \/ ReverseDnsCatch(ipAddress)

\* The promise of a spawned "ipinfo" call for lookupKey settles.
IpInfoSettles(lookupKey) ==
    \/ \E info \in IpInfoResults \cup NoResult : IpInfoThen(lookupKey, info)
    \/ IpInfoCatch(lookupKey)

\* Every external lookup eventually completes or fails.  A settlement stays
\* enabled from the spawn until it runs, so weak fairness is enough.
LookupsSettle ==
    /\ \A ipAddress \in AllKeys : WF_vars(ReverseDnsSettles(ipAddress))
    /\ \A lookupKey \in AllKeys : WF_vars(IpInfoSettles(lookupKey))

\* The promise of the spawned log-collection call settles.
FetchSettles ==
    \/ \E output \in FetchOutputs(session.lines) : FetchThen(output)
    \/ FetchCatch

\* The sessions that start without ipinfo_usage.txt (count 0).
FairInit == Init /\ usageFile = <<>>

FairSpec == FairInit /\ [][Next]_vars /\ LookupsSettle

\* The log-collection call eventually completes or fails.  The .catch
\* callback is enabled for as long as the call is outstanding.
FetchFairSpec == FairInit /\ [][Next]_vars /\ WF_vars(FetchSettles)

(***************************************************************************)
(* The pure functions on their own.  The page is not loaded: the program   *)
(* state keeps the values the state object is constructed with.            *)
(***************************************************************************)
NotLoaded ==
    /\ session = [lines |-> {}, ranges |-> {}, lastDay |-> 1]
    /\ today = 1
    /\ usageFile = <<>>
    /\ timeRange = "24 hours ago"
    /\ trafficRecords = <<>>
    /\ isFetching = FALSE
    /\ errorBanner = <<>>
    /\ tableRows = <<>>
    /\ fetchInFlight = <<>>
    /\ reverseDnsCache = EmptyMap
    /\ pendingDnsLookups = {}
    /\ dnsOutstanding = NoCalls
    /\ ipInfoCache = EmptyMap
    /\ pendingIpInfoLookups = {}
    /\ ipInfoOutstanding = NoCalls
    /\ ipInfoTimers = <<>>
    /\ ipInfoDailyCount = 0
    /\ fetched = <<>>
    /\ dnsCalls = ZeroCounts
    /\ ipInfoCalls = ZeroCounts
    /\ ipInfoCallsToday = 0
    /\ lookupsToday = 0
    /\ staleDns = {}
    /\ staleIpInfo = {}
    /\ lastOp = Op("none", "", 0)

(***************************************************************************)
(* processLogs over every short list of log events, one loop iteration per *)
(* step.                                                                   *)
(***************************************************************************)
\* The instants a log event can carry: the epoch (unparseable) and three others.
FoldInstants == 0..MaxInstant

\* Log events as parseShellOutput constructs them: a DNS event has the
\* address empty, a firewall event has the url empty; field 2 of the line can
\* be any text, the empty string and the text of an address included.
FoldEvents ==
    { [type |-> "DNS", timestamp |-> t, url |-> u, address |-> ""] :
          t \in FoldInstants, u \in {"github.com", "10.0.0.1", "", ProtoKey} }
    \cup { [type |-> "HTTPS", timestamp |-> t, url |-> "", address |-> "10.0.0.1"] :
               t \in FoldInstants }

FoldInit ==
    /\ NotLoaded
    /\ SortIdle
    /\ ParseIdle
    /\ LoadIdle
    /\ foldLogs \in SeqsUpTo(FoldEvents, MaxEvents)
    /\ foldCount = 0
    /\ foldRecords = <<>>

\* One iteration of the loop: recordMap after the first foldCount + 1 events.
FoldEvent ==
    /\ foldCount < Len(foldLogs)
    /\ foldCount' = foldCount + 1
    /\ foldRecords' = processLogs(SubSeq(foldLogs, 1, foldCount + 1))
    /\ UNCHANGED <<foldLogs, programVars, sortVars, parseVars, loadVars>>

FoldNext == FoldEvent

FoldSpec == FoldInit /\ [][FoldNext]_vars

(***************************************************************************)
(* Sorting.                                                                *)
(***************************************************************************)
SortColumns ==
    {"url", "address", "firstTimestamp", "lastTimestamp", "frequency", "category", "data"}
SortDirections == {"asc", "desc"}

\* String.prototype.toLowerCase on the strings the records carry.
toLowerCase(str) ==
    CASE str = "GitHub.com" -> "github.com"
      [] str = "AS36459 GitHub" -> "as36459 github"
      [] str = "America/Chicago" -> "america/chicago"
      [] str = "Europe/Berlin" -> "europe/berlin"
      [] OTHER -> str

\* The lower-case strings in the order of the < operator (UTF-16 code units).
StringOrder ==
    << "10.0.0.1", "10.0.0.2", "10.0.0.3", "america/chicago", "as15169 google",
       "as36459 github", "europe/berlin", "example.org", "github.com" >>

CodeUnitRank(str) == CHOOSE n \in 1..Len(StringOrder) : StringOrder[n] = str

\* aVal === "" || aVal === null || aVal === undefined: a Date or a number
\* is none of these, so only the string columns have empty values.
isEmptyValue(rec, column) ==
    IF column \in {"firstTimestamp", "lastTimestamp", "frequency"}
    THEN FALSE
    ELSE rec[column] = ""

\* Mutant: the direction is applied to the empty-value results as well.
compareRecordsFlippingEmpties(a, b, column, direction) ==
    LET result ==
            IF isEmptyValue(a, column) /\ isEmptyValue(b, column) THEN 0
            ELSE IF isEmptyValue(a, column) THEN 1
            ELSE IF isEmptyValue(b, column) THEN -1
            ELSE IF column \in {"firstTimestamp", "lastTimestamp", "frequency"}
            THEN a[column] - b[column]
            ELSE LET aStr == CodeUnitRank(toLowerCase(a[column]))
                     bStr == CodeUnitRank(toLowerCase(b[column]))
                 IN IF aStr < bStr THEN -1 ELSE IF aStr > bStr THEN 1 ELSE 0
    IN IF direction = "asc" THEN result ELSE -result

\* The comparison function sortRecords hands to Array.prototype.sort.
compareRecords(a, b, column, direction) ==
    IF isEmptyValue(a, column) /\ isEmptyValue(b, column) THEN 0
    ELSE IF isEmptyValue(a, column) THEN 1
    ELSE IF isEmptyValue(b, column) THEN -1
    ELSE LET result ==
                 IF column \in {"firstTimestamp", "lastTimestamp"}
                 THEN a[column] - b[column]
                 ELSE IF column = "frequency"
                 THEN a[column] - b[column]
                 ELSE LET aStr == CodeUnitRank(toLowerCase(a[column]))
                          bStr == CodeUnitRank(toLowerCase(b[column]))
                      IN IF aStr < bStr THEN -1 ELSE IF aStr > bStr THEN 1 ELSE 0
         IN IF direction = "asc" THEN result ELSE -result

\* The rearrangements of an array.
Rearrangements(array) ==
    LET n == Len(array)
        Bijections == {f \in [1..n -> 1..n] : \A i, j \in 1..n : f[i] = f[j] => i = j}
    IN {[i \in 1..n |-> array[f[i]]] : f \in Bijections}

\* sortRecords: the arrays Array.prototype.sort can leave in place of
\* records under the comparison function.  The order of elements that
\* compare equal depends on the engine, so every sorted rearrangement is a
\* possible outcome.
sortRecords(records, column, direction) ==
    {arr \in Rearrangements(records) :
        \A i, j \in 1..Len(arr) :
            i < j => compareRecords(arr[i], arr[j], column, direction) <= 0}

\* Mutant: renderTable hands state.trafficRecords itself to sortRecords.
sliceSkipped(array) == [elems |-> array, fresh |-> FALSE]

\* Array.prototype.slice(): a new array with the same elements.
slice(array) == [elems |-> array, fresh |-> TRUE]

(***************************************************************************)
(* renderTable's sorting over every small record set, under every sort     *)
(* setting.                                                                *)
(***************************************************************************)
\* Records as the aggregation and the enrichment leave them.
SortRecordPool ==
    { [type |-> "DNS", url |-> "GitHub.com", address |-> "", firstTimestamp |-> 1,
       lastTimestamp |-> 2, frequency |-> 2, category |-> "", data |-> ""],
      [type |-> "HTTPS", url |-> "", address |-> "10.0.0.1", firstTimestamp |-> 2,
       lastTimestamp |-> 2, frequency |-> 1, category |-> "AS36459 GitHub",
       data |-> "America/Chicago"],
      [type |-> "DNS", url |-> "example.org", address |-> "10.0.0.2",
       firstTimestamp |-> 0, lastTimestamp |-> 0, frequency |-> 3,
       category |-> "as15169 google", data |-> ""],
      [type |-> "PING", url |-> "", address |-> "10.0.0.3", firstTimestamp |-> 1,
       lastTimestamp |-> 3, frequency |-> 1, category |-> "",
       data |-> "Europe/Berlin"] }

\* Record sets: one record per key.
SortInputs ==
    {recs \in SeqsUpTo(SortRecordPool, MaxSortRecords) :
        \A i, j \in 1..Len(recs) : recs[i] = recs[j] => i = j}

SortInit ==
    /\ NotLoaded
    /\ FoldIdle
    /\ ParseIdle
    /\ LoadIdle
    /\ sortRecs \in SortInputs
    /\ sortColumn = "lastTimestamp"
    /\ sortDirection = "desc"
    /\ sorted = <<>>

\* handleSortChange: the sort settings change and renderTable runs, which
\* sorts a copy of the record set unless the set is empty.  sortRecords
\* sorts the array it is given in place and returns it.
handleSortChange(column, direction) ==
    /\ sortColumn' = column
    /\ sortDirection' = direction
    /\ IF Len(sortRecs) = 0
       THEN UNCHANGED <<sortRecs, sorted>>
       ELSE LET copy == slice(sortRecs)
            IN \E arr \in sortRecords(copy.elems, column, direction) :
                   /\ sorted' = arr
                   /\ sortRecs' = IF copy.fresh THEN sortRecs ELSE arr
    /\ UNCHANGED <<programVars, foldVars, parseVars, loadVars>>

SortNext ==
    \E column \in SortColumns, direction \in SortDirections :
        handleSortChange(column, direction)

SortSpec == SortInit /\ [][SortNext]_vars

(***************************************************************************)
(* parseShellOutput over every short output.                               *)
(***************************************************************************)
\* Lines of an output, split on "|": well-formed lines of each kind (one
\* with a timestamp that does not parse), a blank line, a line with two
\* fields, a line of an unknown kind, and lines whose field 2 is empty.
ParseLines ==
    { <<"DNS", "Feb 14 15:54:10", "github.com", "A">>,
      <<"HTTPS", "Feb 14 15:55:01", "10.0.0.1">>,
      <<"PING", "not a date", "10.0.0.1">>,
      <<"">>,
      <<"GARBAGE", "not-a-kind">>,
      <<"SSH", "Feb 14 15:54:10", "10.0.0.1">>,
      <<"DNS", "Feb 14 15:54:10", "">>,
      <<"HTTPS", "Feb 14 15:55:01", "">> }

ParseInit ==
    /\ NotLoaded
    /\ FoldIdle
    /\ SortIdle
    /\ LoadIdle
    /\ parseInput \in SeqsUpTo(ParseLines, MaxParseLines)
    /\ parsed = FALSE
    /\ parseLogs = <<>>

\* The call parseShellOutput(output) returns.
ParseOutput ==
    /\ ~parsed
    /\ parsed' = TRUE
    /\ parseLogs' = parseShellOutput(parseInput)
    /\ UNCHANGED <<parseInput, programVars, foldVars, sortVars, loadVars>>

ParseNext == ParseOutput

ParseSpec == ParseInit /\ [][ParseNext]_vars

(***************************************************************************)
(* loadIpInfoUsage over every small usage file.                            *)
(***************************************************************************)
\* Count fields: the decimal text of a count, text without a leading digit,
\* no text, digits followed by other text.
CountTexts ==
    {DecimalText(c) : c \in 0..ipInfoDailyLimit}
    \cup { [digits |-> <<>>, rest |-> "abc"], [digits |-> <<>>, rest |-> ""],
           [digits |-> <<ipInfoDailyLimit>>, rest |-> "abc"] }

\* What the read can resolve with: nothing (absent, empty or blank file), a
\* line of one, two or three fields; day 0 is a day before the first.
LoadContents ==
    {<<>>}
    \cup {<<d>> : d \in 0..MaxDay}
    \cup {<<d, t>> : d \in 0..MaxDay, t \in CountTexts}
    \cup {<<d, DecimalText(1), DecimalText(1)>> : d \in 0..MaxDay}

LoadInit ==
    /\ NotLoaded
    /\ FoldIdle
    /\ SortIdle
    /\ ParseIdle
    /\ loadContent \in LoadContents
    /\ loadToday \in 1..MaxDay
    /\ loadOutcome = "pending"
    /\ loadCount = 0

\* The read resolves with the content of the file.
LoadThen ==
    /\ loadOutcome = "pending"
    /\ loadOutcome' = "read"
    /\ loadCount' = loadIpInfoUsage(loadContent, loadToday)
    /\ UNCHANGED <<loadContent, loadToday, programVars, foldVars, sortVars, parseVars>>

\* The read is rejected (the file cannot be read).
LoadCatch ==
    /\ loadOutcome = "pending"
    /\ loadOutcome' = "failed"
    /\ loadCount' = 0
    /\ UNCHANGED <<loadContent, loadToday, programVars, foldVars, sortVars, parseVars>>

LoadNext == LoadThen \/ LoadCatch

LoadSpec == LoadInit /\ [][LoadNext]_vars

(***************************************************************************)
(* Vocabulary of the properties.                                           *)
(***************************************************************************)
EnrichedFields == {"url", "address", "category", "data"}

\* No field that was non-empty in before differs in after.
NoOverwrite(before, after) ==
    /\ Len(after) = Len(before)
    /\ \A i \in 1..Len(before) : \A f \in EnrichedFields :
           before[i][f] # "" => after[i][f] = before[i][f]

\* Every field for which result carries a value is non-empty in rec.
Filled(rec, result) ==
    /\ result.hostname # "" => rec.url # ""
    /\ result.ip # "" => rec.address # ""
    /\ result.org # "" => rec.category # ""
    /\ result.timezone # "" => rec.data # ""

\* The result of an IP-info lookup written into the empty fields of rec.
FilledFrom(rec, result) ==
    [rec EXCEPT !.url = IF @ = "" THEN result.hostname ELSE @,
                !.address = IF @ = "" THEN result.ip ELSE @,
                !.category = IF @ = "" THEN result.org ELSE @,
                !.data = IF @ = "" THEN result.timezone ELSE @]

HasPositive(cache, k) == k \in DOMAIN cache /\ cache[k].ok
HasHostname(cache, k) == k \in DOMAIN cache /\ cache[k] # NullDns

\* The day ipinfo_usage.txt is stamped with (0 when there is no usable file).
StoredDay == IF Len(usageFile) = 2 THEN usageFile[1] ELSE 0

(***************************************************************************)
(* C1: under any interleaving of fetch cycles, reverse-DNS completions,    *)
(* IP-info timers and IP-info completions, no enrichment step changes a    *)
(* url, address, category or data field that was non-empty immediately     *)
(* before the step.  For the passes that run inside a fetch cycle, "before"*)
(* is the record set as processLogs returned it.                           *)
(***************************************************************************)
C1_EnrichmentNeverOverwrites ==
    [][IF lastOp'.op = "fetchThen"
       THEN NoOverwrite(fetched', trafficRecords')
       ELSE NoOverwrite(trafficRecords, trafficRecords')]_vars

\* An IP-info result carrying a hostname was applied to a record whose url
\* reverse DNS had already filled: the owner arrived, the url stayed.
C1_Witness ==
    /\ lastOp.op = "ipInfoThen"
    /\ HasPositive(ipInfoCache, lastOp.key)
    /\ \E i \in 1..Len(trafficRecords) :
           /\ trafficRecords[i].address = lastOp.key
           /\ trafficRecords[i].type # "DNS"
           /\ trafficRecords[i].url \in PtrNames
           /\ ipInfoCache[lastOp.key].hostname \notin {"", trafficRecords[i].url}
           /\ trafficRecords[i].category = ipInfoCache[lastOp.key].org

(***************************************************************************)
(* C2: the quota gate refuses IP-info lookups only while the count is at   *)
(* or above the limit AND the stored day is the current day: no call is    *)
(* issued while both hold, and once the stored day differs from the        *)
(* current day the gate (the break in enrichWithIpInfo) no longer stops    *)
(* lookups.                                                                *)
(***************************************************************************)
C2_QuotaGateUntilDayDiffers ==
    /\ (lastOp.op = "performIpInfoLookup" /\ lastOp.n = 1)
           => (ipInfoDailyCount < ipInfoDailyLimit \/ StoredDay # today)
    /\ (lastOp.op = "fetchThen" /\ lastOp.n > 0) => StoredDay = today

(***************************************************************************)
(* C3: within one calendar day the number of "ipinfo" calls issued never   *)
(* exceeds ipInfoDailyLimit (calls counted by an earlier session of the    *)
(* same day included).                                                     *)
(***************************************************************************)
C3_CallsWithinDailyLimit == ipInfoCallsToday <= ipInfoDailyLimit

(***************************************************************************)
(* C4: the quota count is valid only for its stamped day: a usage file     *)
(* stamped with the current day holds exactly the lookups counted on that  *)
(* day, and the gate stops a pass only when the lookups counted on the     *)
(* current day have reached the limit.                                     *)
(***************************************************************************)
C4_CountValidForStampedDay ==
    /\ (Len(usageFile) = 2 /\ usageFile[1] = today)
          => usageFile[2] = DecimalText(lookupsToday)
    /\ (lastOp.op = "fetchThen" /\ lastOp.n > 0) => lookupsToday >= ipInfoDailyLimit

C6_OneLookupPerKey ==
    \A k \in AllKeys : dnsCalls[k] <= 1 /\ ipInfoCalls[k] <= 1

\* A later cycle has met a key whose only lookup failed, and issued nothing.
C6_Witness ==
    /\ lastOp.op = "fetchThen"
    /\ \E i \in lastOp.dnsHits :
           /\ reverseDnsCache[fetched[i].address] = NullDns
           /\ dnsCalls[fetched[i].address] = 1
    /\ \E i \in lastOp.ipHits :
           /\ ~ipInfoCache[lookupKeyOf(fetched[i])].ok
           /\ ipInfoCalls[lookupKeyOf(fetched[i])] = 1

(***************************************************************************)
(* C7: a key is in an instance's in-flight set exactly when one external   *)
(* lookup for it is outstanding; no key ever has two outstanding lookups.  *)
(***************************************************************************)
C7_InFlightSetIsOutstandingCalls ==
    \A k \in AllKeys :
        /\ Len(dnsOutstanding[k]) = IF k \in pendingDnsLookups THEN 1 ELSE 0
        /\ Len(ipInfoOutstanding[k]) = IF k \in pendingIpInfoLookups THEN 1 ELSE 0

\* A new cycle has asked for an address whose lookup from an earlier cycle
\* is still outstanding.
C7_Witness ==
    /\ lastOp.op = "fetchThen"
    /\ \E i \in 1..Len(fetched) :
           /\ fetched[i].url = ""
           /\ fetched[i].address \in staleDns
           /\ Len(dnsOutstanding[fetched[i].address]) = 1

(***************************************************************************)
(* C8: when a cycle's enrichment pass meets a qualifying record whose key  *)
(* has a positive cache entry, the cached value fills the empty fields of  *)
(* every current record matching the key, within the cycle's own step, and *)
(* no call, timer or in-flight mark is created for the key.                *)
(***************************************************************************)
C8_CachedValueAppliedInPass ==
    [][lastOp'.op = "fetchThen" =>
        /\ \A i \in lastOp'.dnsHits :
              LET k == fetched'[i].address
              IN HasHostname(reverseDnsCache, k) =>
                   /\ \A j \in 1..Len(fetched') :
                          (fetched'[j].address = k /\ fetched'[j].url = "")
                              => trafficRecords'[j].url = reverseDnsCache[k]
                   /\ dnsCalls'[k] = dnsCalls[k]
                   /\ dnsOutstanding'[k] = dnsOutstanding[k]
                   /\ k \notin pendingDnsLookups'
        /\ \A i \in lastOp'.ipHits :
              LET k == lookupKeyOf(fetched'[i])
              IN HasPositive(ipInfoCache, k) =>
                   /\ \A j \in 1..Len(fetched') :
                          (k \in {fetched'[j].address, fetched'[j].url})
                              => Filled(trafficRecords'[j], ipInfoCache[k])
                   /\ ipInfoCalls'[k] = ipInfoCalls[k]
                   /\ k \notin pendingIpInfoLookups'
                   /\ ipInfoTimers' # ipInfoTimers
                          => \A t \in Range(ipInfoTimers'[Len(ipInfoTimers')]) :
                                 t.key # k]_vars

\* Scenario D and its IP-info twin: the cycle found both caches filled for
\* the address of a fresh record and the record shows the cached values.
C8_Witness ==
    /\ lastOp.op = "fetchThen"
    /\ \E i \in lastOp.dnsHits \cap lastOp.ipHits :
           /\ fetched[i].url = ""
           /\ fetched[i].category = ""
           /\ HasHostname(reverseDnsCache, fetched[i].address)
           /\ HasPositive(ipInfoCache, fetched[i].address)
           /\ trafficRecords[i].url = reverseDnsCache[fetched[i].address]
           /\ trafficRecords[i].category = ipInfoCache[fetched[i].address].org
           /\ dnsCalls[fetched[i].address] = 1
           /\ ipInfoCalls[fetched[i].address] = 1

(***************************************************************************)
(* C9: when the daily count is at or above the limit during a cycle's      *)
(* enrichWithIpInfo pass, every record whose lookup key has a positive     *)
(* IP-info cache entry still shows the cached result after the pass,       *)
(* wherever it sits in the record list.                                    *)
(***************************************************************************)
C9_CachedAppliedAtQuota ==
    (lastOp.op = "fetchThen" /\ ipInfoDailyCount >= ipInfoDailyLimit)
        => \A i \in 1..Len(fetched) :
               HasPositive(ipInfoCache, lookupKeyOf(fetched[i]))
                   => Filled(trafficRecords[i], ipInfoCache[lookupKeyOf(fetched[i])])

(***************************************************************************)
(* C10: at most one log-collection call is outstanding at any time, and a  *)
(* fetchAndRenderData request that arrives while state.isFetching is true  *)
(* issues no call and changes no state; nothing is queued, so when the     *)
(* guard is released no call is outstanding.                               *)
(***************************************************************************)
C10_SingleFlightFetch ==
    /\ [](Len(fetchInFlight) = IF isFetching THEN 1 ELSE 0)
    /\ [][(lastOp'.op \in {"fetchAndRenderData", "handleTimeFilterChange"}
              /\ lastOp'.n = 1)
          => /\ UNCHANGED <<isFetching, errorBanner, fetchInFlight, today, fetched>>
             /\ UNCHANGED enrichmentVars
             /\ lastOp'.op = "fetchAndRenderData" => UNCHANGED timeRange]_vars

\* A request arrived while a log-collection call was outstanding.
C10_Witness ==
    /\ lastOp.op = "fetchAndRenderData"
    /\ lastOp.n = 1
    /\ isFetching
    /\ Len(fetchInFlight) = 1

(***************************************************************************)
(* C11: when the log-collection call fails, state.trafficRecords, both     *)
(* enrichment caches, both in-flight sets and the quota count (in memory   *)
(* and on disk) are left as they were; the step shows the error message    *)
(* and releases the fetch guard, and changes nothing else.                 *)
(***************************************************************************)
C11_FetchFailureKeepsState ==
    [][lastOp'.op = "fetchCatch"
       => /\ UNCHANGED <<trafficRecords, reverseDnsCache, ipInfoCache,
                         pendingDnsLookups, pendingIpInfoLookups,
                         ipInfoDailyCount, usageFile>>
          /\ UNCHANGED <<dnsOutstanding, ipInfoOutstanding, ipInfoTimers, timeRange>>
          /\ errorBanner' \in {showError(error) : error \in FetchErrors}
          /\ isFetching /\ ~isFetching']_vars

\* A log collection failed while records, cache entries, an in-flight
\* lookup and a non-zero count were present.
C11_Witness ==
    /\ lastOp.op = "fetchCatch"
    /\ trafficRecords # <<>>
    /\ DOMAIN ipInfoCache # {}
    /\ pendingDnsLookups # {}
    /\ ipInfoDailyCount > 0
    /\ errorBanner # <<>>
    /\ ~isFetching

(***************************************************************************)
(* C12: when an enrichment lookup fails (the external call is rejected,    *)
(* the "host" output has no pointer clause, or the "ipinfo" output is not  *)
(* JSON), the completion step leaves a negative cache entry for the key,   *)
(* changes no record, does not change the quota count or the usage file,   *)
(* and shows no error.                                                     *)
(***************************************************************************)
C12_LookupFailureIsNegativeCached ==
    [][\A k \in AllKeys :
          /\ (ReverseDnsThen(k, NoMatch) \/ ReverseDnsCatch(k))
                => /\ k \in DOMAIN reverseDnsCache'
                   /\ reverseDnsCache'[k] = NullDns
                   /\ UNCHANGED <<trafficRecords, ipInfoDailyCount, usageFile,
                                  errorBanner>>
          /\ (IpInfoThen(k, BadJson) \/ IpInfoCatch(k))
                => /\ k \in DOMAIN ipInfoCache'
                   /\ ipInfoCache'[k] = NullInfo
                   /\ UNCHANGED <<trafficRecords, ipInfoDailyCount, usageFile,
                                  errorBanner>>]_vars

\* An "ipinfo" output that was not JSON completed for a key a record still
\* waits on, after a "host" lookup had failed as well.
C12_Witness ==
    /\ lastOp.op = "ipInfoThen"
    /\ lastOp.key \in DOMAIN ipInfoCache
    /\ ipInfoCache[lastOp.key] = NullInfo
    /\ \E i \in 1..Len(trafficRecords) :
           /\ lookupKeyOf(trafficRecords[i]) = lastOp.key
           /\ trafficRecords[i].category = ""
    /\ \E k \in DOMAIN reverseDnsCache : reverseDnsCache[k] = NullDns
    /\ errorBanner = <<>>

(***************************************************************************)
(* Vocabulary of the aggregation properties.                               *)
(***************************************************************************)
\* The identity/dedup key of a log event or of a record.
KeyOf(r) == IF r.url # "" THEN r.url ELSE r.address

\* The events the loop has folded in so far.
Folded == SubSeq(foldLogs, 1, foldCount)

\* The positions in logs of the events that have key k.
EventsOf(logs, k) == {j \in 1..Len(logs) : KeyOf(logs[j]) = k}

\* The positions in recs of the records that have key k.
RecordsOf(recs, k) == {i \in 1..Len(recs) : KeyOf(recs[i]) = k}

(***************************************************************************)
(* C13: for every list of log events, processLogs returns exactly one      *)
(* record for each distinct non-empty key (url if non-empty, else address) *)
(* that occurs in the list, the frequency of that record is the number of  *)
(* events of the list that have that key, and there is no record with the  *)
(* empty key or with a key that does not occur.                            *)
(***************************************************************************)
C13_OneRecordPerKeyWithFrequency ==
    /\ \A j \in 1..Len(Folded) :
           KeyOf(Folded[j]) # ""
               => /\ Cardinality(RecordsOf(foldRecords, KeyOf(Folded[j]))) = 1
                  /\ \A i \in RecordsOf(foldRecords, KeyOf(Folded[j])) :
                         foldRecords[i].frequency
                             = Cardinality(EventsOf(Folded, KeyOf(Folded[j])))
    /\ \A i \in 1..Len(foldRecords) :
           /\ KeyOf(foldRecords[i]) # ""
           /\ EventsOf(Folded, KeyOf(foldRecords[i])) # {}

\* The timestamps of the events of logs that have key k.
InstantsOf(logs, k) == {logs[j].timestamp : j \in EventsOf(logs, k)}

Earliest(S) == CHOOSE x \in S : \A y \in S : x <= y
Latest(S) == CHOOSE x \in S : \A y \in S : x >= y

(***************************************************************************)
(* C14: after every event processLogs folds in, each record has            *)
(* firstTimestamp <= lastTimestamp, and these two equal the earliest and   *)
(* the latest timestamp of the events folded in so far for the record's    *)
(* key (so also at the end of the list); from one fold to the next the     *)
(* firstTimestamp of a record never increases and its lastTimestamp never  *)
(* decreases.                                                              *)
(***************************************************************************)
C14_TimestampsTightenMonotonically ==
    /\ [](\A i \in 1..Len(foldRecords) :
             /\ foldRecords[i].firstTimestamp <= foldRecords[i].lastTimestamp
             /\ foldRecords[i].firstTimestamp
                    = Earliest(InstantsOf(Folded, KeyOf(foldRecords[i])))
             /\ foldRecords[i].lastTimestamp
                    = Latest(InstantsOf(Folded, KeyOf(foldRecords[i]))))
    /\ [][/\ Len(foldRecords') >= Len(foldRecords)
          /\ \A i \in 1..Len(foldRecords) :
                 /\ KeyOf(foldRecords'[i]) = KeyOf(foldRecords[i])
                 /\ foldRecords'[i].firstTimestamp <= foldRecords[i].firstTimestamp
                 /\ foldRecords'[i].lastTimestamp >= foldRecords[i].lastTimestamp]_vars

\* Three events of one key were folded in, the first of them neither the
\* earliest nor the latest: one merge moved firstTimestamp, another
\* lastTimestamp.
C14_Witness ==
    /\ foldCount = 3
    /\ \E i \in 1..Len(foldRecords) :
           /\ foldRecords[i].frequency = 3
           /\ foldRecords[i].firstTimestamp < Folded[1].timestamp
           /\ Folded[1].timestamp < foldRecords[i].lastTimestamp
           /\ Folded[2].timestamp < Folded[3].timestamp

(***************************************************************************)
(* C15: the identity/dedup key of a record (url if non-empty, else         *)
(* address) is the same after every step as before it, for as long as the  *)
(* record stays in state.trafficRecords: a completion or a timer leaves    *)
(* the key of every record as it was, and the enrichment passes of a fetch *)
(* cycle leave every record with the key processLogs gave it.              *)
(***************************************************************************)
C15_DedupKeyNeverChanges ==
    [][IF lastOp'.op = "fetchThen"
       THEN /\ Len(trafficRecords') = Len(fetched')
            /\ \A i \in 1..Len(fetched') :
                   KeyOf(trafficRecords'[i]) = KeyOf(fetched'[i])
       ELSE /\ Len(trafficRecords') = Len(trafficRecords)
            /\ \A i \in 1..Len(trafficRecords) :
                   KeyOf(trafficRecords'[i]) = KeyOf(trafficRecords[i])]_vars

\* The number of log events counted by the records of recs.
RECURSIVE TotalFrequency(_)
TotalFrequency(recs) ==
    IF recs = <<>> THEN 0 ELSE Head(recs).frequency + TotalFrequency(Tail(recs))

(***************************************************************************)
(* C16: in every reachable state every record of state.trafficRecords has  *)
(* a non-empty url or a non-empty address, and a frequency of at least 1.  *)
(***************************************************************************)
C16_RecordsHaveKeyAndFrequency ==
    \A i \in 1..Len(trafficRecords) :
        /\ trafficRecords[i].url # "" \/ trafficRecords[i].address # ""
        /\ trafficRecords[i].frequency >= 1

\* A fetch cycle installed records from an output in which some event had
\* neither a url nor an address.
C16_Witness ==
    /\ lastOp.op = "fetchThen"
    /\ trafficRecords # <<>>
    /\ lastOp.events > TotalFrequency(trafficRecords)

\* The value a column is ordered by: the instant of a timestamp, the number
\* of a frequency, the position of the lower-cased text of any other column.
OrderValue(rec, column) ==
    IF column \in {"firstTimestamp", "lastTimestamp", "frequency"}
    THEN rec[column]
    ELSE CodeUnitRank(toLowerCase(rec[column]))

(***************************************************************************)
(* C17: for every sort column and both directions, the array sortRecords   *)
(* returns has every record whose value in the column is empty after every *)
(* record whose value is not; the records with non-empty values are in     *)
(* non-decreasing order of that value when the direction is ascending and  *)
(* in non-increasing order when it is descending (timestamps as instants,  *)
(* frequency as a number, other columns as case-insensitive strings).      *)
(***************************************************************************)
C17_EmptyLastInBothDirections ==
    \A i, j \in 1..Len(sorted) :
        i < j =>
            /\ isEmptyValue(sorted[i], sortColumn) => isEmptyValue(sorted[j], sortColumn)
            /\ (~isEmptyValue(sorted[i], sortColumn) /\ ~isEmptyValue(sorted[j], sortColumn))
                  => IF sortDirection = "asc"
                     THEN OrderValue(sorted[i], sortColumn) <= OrderValue(sorted[j], sortColumn)
                     ELSE OrderValue(sorted[i], sortColumn) >= OrderValue(sorted[j], sortColumn)

\* A descending sort on a text column moved a record with an empty value
\* behind two records whose values differ only in order after lower-casing.
C17_Witness ==
    /\ sortDirection = "desc"
    /\ sortColumn = "category"
    /\ Len(sorted) = 3
    /\ isEmptyValue(sortRecs[1], sortColumn)
    /\ ~isEmptyValue(sorted[1], sortColumn)
    /\ ~isEmptyValue(sorted[2], sortColumn)
    /\ isEmptyValue(sorted[3], sortColumn)
    /\ OrderValue(sorted[1], sortColumn) > OrderValue(sorted[2], sortColumn)

(***************************************************************************)
(* C18: producing the sorted view for display leaves the record set as it  *)
(* was, the same records in the same order, and the sorted array holds     *)
(* exactly the records of the set, rearranged.                             *)
(***************************************************************************)
C18_SortedViewLeavesRecordSet ==
    [][/\ sortRecs' = sortRecs
       /\ Len(sortRecs) > 0 => sorted' \in Rearrangements(sortRecs)]_vars

\* A sort put three records in an order other than the one the record set
\* has.
C18_Witness ==
    /\ Len(sortRecs) = 3
    /\ Len(sorted) = 3
    /\ sorted[1] = sortRecs[3]
    /\ sorted[3] = sortRecs[1]

\* A line that is not blank, has at least 3 fields and names a known kind.
WellFormed(parts) ==
    /\ Len(parts) >= 3
    /\ parts[1] \in {"DNS", "HTTPS", "HTTP", "PING"}

\* The event of a well-formed line.
EventOfLine(parts) ==
    [type |-> parts[1], timestamp |-> parseTimestamp(parts[2]),
     url |-> IF parts[1] = "DNS" THEN parts[3] ELSE "",
     address |-> IF parts[1] = "DNS" THEN "" ELSE parts[3]]

(***************************************************************************)
(* C19: parseShellOutput returns for every output: the events it returns   *)
(* are, in order, the events of the well-formed lines, one each, so a      *)
(* blank line, a line with fewer than 3 fields and a line of an unknown    *)
(* kind yield no event and leave the events of the other lines as they     *)
(* are; an empty output yields no event and processLogs then yields no     *)
(* record.                                                                 *)
(***************************************************************************)
C19_MalformedLinesAreDropped ==
    parsed =>
        LET kept == SelectSeq(parseInput, WellFormed)
        IN /\ Len(parseLogs) <= Len(parseInput)
           /\ Len(parseLogs) = Len(kept)
           /\ \A k \in 1..Len(kept) : parseLogs[k] = EventOfLine(kept[k])
           /\ parseInput = <<>> => parseLogs = <<>> /\ processLogs(parseLogs) = <<>>

\* An output with a two-field line between two well-formed lines was parsed.
C19_Witness ==
    /\ parsed
    /\ Len(parseInput) = 3
    /\ WellFormed(parseInput[1])
    /\ parseInput[2] = <<"GARBAGE", "not-a-kind">>
    /\ WellFormed(parseInput[3])
    /\ Len(parseLogs) = 2

(***************************************************************************)
(* C20: every event parseShellOutput constructs has exactly one of url and *)
(* address non-empty; no event has both empty, whatever field 2 of its     *)
(* line is.                                                                *)
(***************************************************************************)
C20_EventsHaveExactlyOneKey ==
    \A k \in 1..Len(parseLogs) :
        (parseLogs[k].url # "") # (parseLogs[k].address # "")

C22_EveryParsedCompletionCounts ==
    [][/\ ipInfoDailyCount' >= ipInfoDailyCount
       /\ \A k \in AllKeys, info \in IpInfoResults \cup {JsonNull} :
              IpInfoThen(k, info)
                  => /\ ipInfoDailyCount' = ipInfoDailyCount + 1
                     /\ usageFile' = <<today, DecimalText(ipInfoDailyCount')>>
       /\ ipInfoDailyCount' # ipInfoDailyCount => lastOp'.op = "ipInfoThen"]_vars

(***************************************************************************)
(* C22, amended: after the initial load the in-memory count never          *)
(* decreases; every "ipinfo" completion for which the .then callback       *)
(* builds a result (the output parses to a value other than null)          *)
(* increases it by exactly one and saves (current day, count) in the same  *)
(* step; no other step changes the count or the file.                      *)
(***************************************************************************)
C22_EveryResultCounts ==
    [][/\ ipInfoDailyCount' >= ipInfoDailyCount
       /\ \A k \in AllKeys, info \in IpInfoResults :
              IpInfoThen(k, info)
                  => /\ ipInfoDailyCount' = ipInfoDailyCount + 1
                     /\ usageFile' = <<today, DecimalText(ipInfoDailyCount')>>
       /\ (ipInfoDailyCount' # ipInfoDailyCount \/ usageFile' # usageFile)
              => /\ lastOp'.op = "ipInfoThen"
                 /\ ipInfoDailyCount' = ipInfoDailyCount + 1
                 /\ usageFile' = <<today, DecimalText(ipInfoDailyCount')>>]_vars

\* Two lookups have completed with a result, the second after an earlier
\* count had been loaded or saved: the file holds the current day and the
\* count.
C22_Witness ==
    /\ lastOp.op = "ipInfoThen"
    /\ HasPositive(ipInfoCache, lastOp.key)
    /\ ipInfoDailyCount = 2
    /\ usageFile = <<today, DecimalText(2)>>

\* C23: if every lookup settles, a key that is in an in-flight set eventually
\* leaves it; the step that removes it leaves a cache entry under the key,
\* the result on a success (host output with a pointer clause, ipinfo output
\* that gives a result) together with a call of renderTable, and null on a
\* failure or an output without data.
C23_InFlightKeysSettleIntoCache ==
    /\ \A k \in AllKeys : (k \in pendingDnsLookups) ~> (k \notin pendingDnsLookups)
    /\ \A k \in AllKeys : (k \in pendingIpInfoLookups) ~> (k \notin pendingIpInfoLookups)
    /\ [][\A k \in AllKeys :
            /\ (k \in pendingDnsLookups /\ k \notin pendingDnsLookups')
                   => /\ k \in DOMAIN reverseDnsCache'
                      /\ ReverseDnsSettles(k)
            /\ (k \in pendingIpInfoLookups /\ k \notin pendingIpInfoLookups')
                   => /\ k \in DOMAIN ipInfoCache'
                      /\ IpInfoSettles(k)
            /\ \A matched \in PtrNames :
                   ReverseDnsThen(k, matched)
                       => reverseDnsCache'[k] = matched /\ lastOp'.rendered
            /\ (ReverseDnsThen(k, NoMatch) \/ ReverseDnsCatch(k))
                   => reverseDnsCache'[k] = NullDns
            /\ \A info \in IpInfoResults :
                   IpInfoThen(k, info)
                       => ipInfoCache'[k] = info /\ lastOp'.rendered
            /\ ((\E info \in NoResult : IpInfoThen(k, info)) \/ IpInfoCatch(k))
                   => ipInfoCache'[k] = NullInfo]_vars

C23_Witness ==
    /\ lastOp.op = "reverseDnsThen"
    /\ lastOp.rendered
    /\ lastOp.key \notin pendingDnsLookups
    /\ HasHostname(reverseDnsCache, lastOp.key)
    /\ \E k \in DOMAIN ipInfoCache : k \notin pendingIpInfoLookups /\ ipInfoCache[k] = NullInfo

\* What a list of records says about each key: the key with its first and
\* last timestamp and its frequency.
Aggregates(recs) ==
    { [key |-> KeyOf(recs[i]), firstTimestamp |-> recs[i].firstTimestamp,
       lastTimestamp |-> recs[i].lastTimestamp, frequency |-> recs[i].frequency] :
          i \in 1..Len(recs) }

\* C24: for every list of log events and every rearrangement of it,
\* processLogs returns records with the same set of keys and, for each key,
\* the same firstTimestamp, lastTimestamp and frequency as for the list in
\* its arrival order.
C24_AggregatesIgnoreArrivalOrder ==
    foldCount = Len(foldLogs)
        => \A logs \in Rearrangements(foldLogs) :
               Aggregates(processLogs(logs)) = Aggregates(foldRecords)

\* Three events were folded, two keys among them, one key with two events of
\* different instants; another arrival order gives another array of records.
C24_Witness ==
    /\ foldCount = 3
    /\ Len(foldLogs) = 3
    /\ Len(foldRecords) = 2
    /\ \E i \in 1..Len(foldRecords) :
           /\ foldRecords[i].frequency = 2
           /\ foldRecords[i].firstTimestamp < foldRecords[i].lastTimestamp
    /\ \E logs \in Rearrangements(foldLogs) : processLogs(logs) # foldRecords

\* C25: a fold that merges an event into an existing record leaves a
\* non-empty url and a non-empty address of that record as they were, and
\* leaves its type (that of the first event of the key), category and data
\* unchanged.
C25_MergeKeepsFilledFields ==
    [][\A i \in 1..Len(foldRecords) :
           /\ foldRecords[i].url # "" => foldRecords'[i].url = foldRecords[i].url
           /\ foldRecords[i].address # ""
                  => foldRecords'[i].address = foldRecords[i].address
           /\ foldRecords'[i].type = foldRecords[i].type
           /\ foldRecords'[i].type
                  = Folded[Earliest(EventsOf(Folded, KeyOf(foldRecords[i])))].type
           /\ foldRecords'[i].category = foldRecords[i].category
           /\ foldRecords'[i].data = foldRecords[i].data]_vars

\* A firewall event was merged into the record of a DNS event with the same
\* key: the record kept its url and type and had its address filled.
C25_Witness ==
    /\ foldCount >= 2
    /\ Folded[foldCount].type = "HTTPS"
    /\ \E i \in 1..Len(foldRecords) :
           /\ KeyOf(foldRecords[i]) = KeyOf(Folded[foldCount])
           /\ foldRecords[i].type = "DNS"
           /\ foldRecords[i].frequency >= 2
           /\ foldRecords[i].url # ""
           /\ foldRecords[i].address # ""

\* C26: a step that applies the IP-info result of lookup key k (the
\* completion of k's lookup, or a timer that finds k in the cache) changes
\* only records whose own lookup key (address if present, else url) is k; a
\* record with a non-empty address other than k stays as it was, also when
\* its url is k.
C26_ResultGoesToOwnLookupKeyOnly ==
    [][\A k \in AllKeys :
           \/ \E info \in IpInfoResults : IpInfoThen(k, info)
           \/ \E b \in 1..Len(ipInfoTimers) :
                  Head(ipInfoTimers[b]).key = k /\ IpInfoTimer(b)
           => \A j \in 1..Len(trafficRecords) :
                  lookupKeyOf(trafficRecords[j]) # k
                      => trafficRecords'[j] = trafficRecords[j]]_vars

\* The record carries the instant parseTimestamp returns for a timestamp it
\* cannot parse (new Date(0)) in the column.
IsEpoch(rec, column) == rec[column] = 0

\* C27: when the records are sorted by a timestamp column, in ascending as
\* in descending direction, every record whose timestamp in that column is
\* the epoch sentinel comes after every record with a real timestamp.
C27_EpochSortsLastInBothDirections ==
    sortColumn \in {"firstTimestamp", "lastTimestamp"}
        => \A i, j \in 1..Len(sorted) :
               (i < j /\ IsEpoch(sorted[i], sortColumn)) => IsEpoch(sorted[j], sortColumn)

\* C28: in every reachable state no key is both in pendingDnsLookups and in
\* reverseDnsCache, and none both in pendingIpInfoLookups and in
\* ipInfoCache; a "host" or "ipinfo" call is spawned only for a key without
\* a cache entry, and the step that removes a key from an in-flight set is
\* the step that writes its cache entry.
C28_InFlightAndCachedAreDisjoint ==
    /\ [](/\ pendingDnsLookups \cap DOMAIN reverseDnsCache = {}
          /\ pendingIpInfoLookups \cap DOMAIN ipInfoCache = {})
    /\ [][\A k \in AllKeys :
            /\ dnsCalls'[k] > dnsCalls[k] => k \notin DOMAIN reverseDnsCache
            /\ ipInfoCalls'[k] > ipInfoCalls[k] => k \notin DOMAIN ipInfoCache
            /\ (k \in pendingDnsLookups /\ k \notin pendingDnsLookups')
                   => (k \notin DOMAIN reverseDnsCache /\ k \in DOMAIN reverseDnsCache')
            /\ (k \in pendingIpInfoLookups /\ k \notin pendingIpInfoLookups')
                   => (k \notin DOMAIN ipInfoCache /\ k \in DOMAIN ipInfoCache')]_vars

\* An "ipinfo" call has just settled and left its key cached and out of the
\* in-flight set, while another key of each instance is still in flight.
C28_Witness ==
    /\ lastOp.op \in {"ipInfoThen", "ipInfoCatch"}
    /\ lastOp.key \in DOMAIN ipInfoCache
    /\ lastOp.key \notin pendingIpInfoLookups
    /\ pendingIpInfoLookups # {}
    /\ pendingDnsLookups # {}

\* C29: in every reachable state ipInfoDailyCount is at most
\* ipInfoDailyLimit (the count loaded at start is not above the limit), also
\* when several lookups that each passed the quota gate are in flight
\* together and then complete.
C29_CountWithinLimit == ipInfoDailyCount <= ipInfoDailyLimit

\* C30: a performIpInfoLookup that finds its key neither cached nor in
\* flight and is stopped by the quota gate leaves ipInfoCache,
\* pendingIpInfoLookups, the count, the usage file and every record as they
\* were and spawns nothing: the key has no cache entry afterwards.  The
\* gate in the loop of enrichWithIpInfo likewise leaves the cache, the
\* in-flight set and the count alone.
C30_RefusedLookupChangesNothing ==
    [][/\ \A b \in 1..Len(ipInfoTimers) :
              LET lookupKey == Head(ipInfoTimers[b]).key
              IN (/\ IpInfoTimer(b)
                  /\ lookupKey \notin DOMAIN ipInfoCache
                  /\ lookupKey \notin pendingIpInfoLookups
                  /\ quotaReached(ipInfoDailyCount))
                     => /\ UNCHANGED <<ipInfoCache, pendingIpInfoLookups, ipInfoDailyCount,
                                       usageFile, trafficRecords, ipInfoOutstanding,
                                       ipInfoCalls>>
                        /\ lookupKey \notin DOMAIN ipInfoCache'
       /\ (lastOp'.op = "fetchThen" /\ lastOp'.n > 0)
              => UNCHANGED <<ipInfoCache, pendingIpInfoLookups, ipInfoDailyCount, usageFile>>]_vars

\* A timer has just run performIpInfoLookup for a key that is neither cached
\* nor in flight, with the count at the limit: nothing was spawned.
C30_Witness ==
    /\ lastOp.op = "performIpInfoLookup"
    /\ lastOp.n = 0
    /\ lastOp.key \notin DOMAIN ipInfoCache
    /\ lastOp.key \notin pendingIpInfoLookups
    /\ quotaReached(ipInfoDailyCount)
    /\ \E i \in 1..Len(trafficRecords) :
           lookupKeyOf(trafficRecords[i]) = lastOp.key /\ trafficRecords[i].category = ""

\* The records after the success callback of the "host" call for ipAddress,
\* and after the success callback of the "ipinfo" call for lookupKey.
AfterReverseDns(recs, ipAddress, hostname) ==
    fillHostname(recs, ipAddress, Head(dnsOutstanding[ipAddress]), hostname)
AfterIpInfo(recs, lookupKey, info) == applyIpInfoResult(recs, lookupKey, info)

\* C31: whenever two lookups are outstanding together, their completions
\* leave the same field values in every record whichever completes first
\* (a "host" call and an "ipinfo" call, or two "ipinfo" calls for different
\* keys), so the records after all lookups have completed do not depend on
\* the order of completion.
C31_CompletionOrderIsIrrelevant ==
    /\ \A a, k \in AllKeys, hostname \in PtrNames, info \in IpInfoResults :
           (dnsOutstanding[a] # <<>> /\ ipInfoOutstanding[k] # <<>>)
               => AfterIpInfo(AfterReverseDns(trafficRecords, a, hostname), k, info)
                      = AfterReverseDns(AfterIpInfo(trafficRecords, k, info), a, hostname)
    /\ \A k1, k2 \in AllKeys, info1, info2 \in IpInfoResults :
           (k1 # k2 /\ ipInfoOutstanding[k1] # <<>> /\ ipInfoOutstanding[k2] # <<>>)
               => AfterIpInfo(AfterIpInfo(trafficRecords, k1, info1), k2, info2)
                      = AfterIpInfo(AfterIpInfo(trafficRecords, k2, info2), k1, info1)

\* No callback is pending: no log collection, no "host" or "ipinfo" call and
\* no timer is outstanding.
Idle ==
    /\ fetchInFlight = <<>>
    /\ ipInfoTimers = <<>>
    /\ \A k \in AllKeys : dnsOutstanding[k] = <<>> /\ ipInfoOutstanding[k] = <<>>

\* C32: every change an enrichment step makes to a record, from a cache hit
\* in the synchronous pass of a cycle or from a completion, is followed by a
\* call of renderTable before the page is idle: whenever no callback is
\* pending, the table was last built from the records as they are now.
C32_IdleTableShowsRecords == Idle => tableRows = trafficRecords

\* C33: if the log-collection call settles, state.isFetching is false again
\* some time after every fetch that set it: while it is true a call is
\* outstanding, and both the .then and the .catch callback reset it, so no
\* later fetch request is blocked for ever.
C33_FetchGuardIsReleased ==
    /\ isFetching ~> ~isFetching
    /\ [](isFetching => fetchInFlight # <<>>)
    /\ [][lastOp'.op \in {"fetchThen", "fetchCatch"} => ~isFetching']_vars

\* A log-collection call failed after an earlier one had installed records
\* that are on display, and the guard is open again.
C33_Witness ==
    /\ lastOp.op = "fetchCatch"
    /\ ~isFetching
    /\ fetchInFlight = <<>>
    /\ errorBanner # <<>>
    /\ trafficRecords # <<>>
    /\ tableRows = trafficRecords

\* C34: whenever the .then callback of a log collection installs a new
\* state.trafficRecords, the call was spawned with the time range that
\* state.timeRange holds at that moment: a range chosen through
\* handleTimeFilterChange while a call is in flight is not overridden by
\* the result of the older call.
C34_InstalledRecordsMatchTimeRange ==
    [][lastOp'.op = "fetchThen" /\ fetchInFlight # <<>>
           => Head(fetchInFlight) = timeRange']_vars

====
